---------------------------- MODULE Spec2Model ----------------------------
(***************************************************************************)
(* A model of dcc.py (dex2c): the method selection pass (MethodFilter,     *)
(* compile_dex), the smali listing patcher (native_class_methods,          *)
(* native_compiled_dexes), the ABI reconciliation (adjust_application_mk), *)
(* the entry-point injection of dcc_main and the run as a whole with the   *)
(* backup and restore of the build template (__main__).                    *)
(***************************************************************************)
EXTENDS Integers, Sequences, FiniteSets, TLC

(***************************************************************************)
(* Bounds of the model.                                                    *)
(***************************************************************************)
\* bytecode files in one package
MaxDex == 2
\* methods in one bytecode file
MaxMethods == 2
\* items (directive, instruction, debug line, annotation block) in the body
\* of a method of a listing
MaxBodyItems == 2
\* entries under lib/ in the package
MaxLibEntries == 2

(***************************************************************************)
(* Helpers on sequences and sets.                                          *)
(***************************************************************************)
Range(s) == {s[i] : i \in DOMAIN s}

RECURSIVE Rep(_, _)
Rep(str, n) == IF n = 0 THEN "" ELSE str \o Rep(str, n - 1)

RECURSIVE SeqFilter(_, _)
\* the elements of the sequence s that are in the set keep, in s's order
SeqFilter(s, keep) ==
    IF s = <<>> THEN <<>>
    ELSE IF Head(s) \in keep THEN <<Head(s)>> \o SeqFilter(Tail(s), keep)
         ELSE SeqFilter(Tail(s), keep)

(***************************************************************************)
(* The methods of the input.  A method has an owning type, a name and a    *)
(* prototype; the prototype is kept as its parameter part and its return   *)
(* part, and the descriptor string the code handles is params \o ret.      *)
(***************************************************************************)
LongName == Rep("m", 215)

Mth(name, params, ret, syn, nat, ann) ==
    [cls |-> "LA;", name |-> name, params |-> params, ret |-> ret,
     synthetic |-> syn, native |-> nat, annotated |-> ann]

\* the methods a bytecode file may hold, in the order a file lists them
MethodUniverse ==
    << Mth("bar", "(I)", "V", FALSE, FALSE, FALSE),
       Mth("bar", "(I)", "V", FALSE, FALSE, TRUE),
       Mth("bar", "(I)", "V", TRUE, FALSE, TRUE),
       Mth("bar", "(I)", "V", FALSE, TRUE, FALSE),
       Mth("bar", "(I)", "I", FALSE, FALSE, FALSE),
       Mth("bar", "()", "V", FALSE, TRUE, FALSE),
       Mth("baz", "()", "V", FALSE, FALSE, FALSE),
       Mth("<clinit>", "()", "V", FALSE, FALSE, FALSE),
       Mth(LongName, "()", "V", FALSE, FALSE, FALSE) >>

ParamStrings == {m.params : m \in Range(MethodUniverse)}
RetStrings == {m.ret : m \in Range(MethodUniverse)}

\* a bytecode file: its methods and whether its class carries the
\* extraction annotation
DexContents ==
    {[methods |-> ms, class_annotated |-> ca] :
        ms \in {s \in SUBSET Range(MethodUniverse) :
                    /\ Cardinality(s) <= MaxMethods
                    \* a class defines a method of a given name and
                    \* descriptor once
                    /\ \A m \in s, n \in s :
                          <<m.name, m.params, m.ret>> = <<n.name, n.params, n.ret>>
                              => m = n},
        ca \in BOOLEAN}

\* d.get_methods(): the methods of a file in the file's order
get_methods(d) == SeqFilter(MethodUniverse, d.methods)

\* dex2c.util.get_method_triple
get_method_triple(m, return_type) ==
    IF return_type THEN <<m.cls, m.name, m.params \o m.ret>>
    ELSE <<m.cls, m.name, m.params>>

is_synthetic_method(m) == m.synthetic
is_native_method(m) == m.native

\* "".join(method_triple)
FullName(t) == t[1] \o t[2] \o t[3]

\* the parameter part of a descriptor: the text up to its ")"
ProtoParams(proto) ==
    CHOOSE ps \in ParamStrings : \E r \in RetStrings : ps \o r = proto

\* dex2c.util.JniLongName: the native symbol of a method; the return type
\* is no part of it
JniLongName(cls, name, proto) ==
    "Java_" \o cls \o "_" \o name \o "__" \o ProtoParams(proto)

\* the bound of compile_dex on the length of a native symbol
MaxSymbolLen == 220


(***************************************************************************)
(* The rule file.  A line is its first character (tag) and the rest; a     *)
(* regular expression is modelled by the full names it is found in.        *)
(***************************************************************************)
ExactBar == FullName(<<"LA;", "bar", "(I)V">>)

RuleLine(tag, body) == [tag |-> tag, body |-> body]

\* re.compile(pat).search(full_name)
RegexSearch(pat, full_name) ==
    CASE pat = ".*" -> TRUE
      [] pat = "bar\\(I\\)V" -> full_name = ExactBar
      [] OTHER -> FALSE

\* the rule files of the model; exists = FALSE is a missing file
RuleFiles ==
    { [exists |-> FALSE, lines |-> <<>>],
      [exists |-> TRUE,
       lines |-> << RuleLine("#", "rules"), RuleLine("=", ExactBar),
                    RuleLine("", "^LB;"), RuleLine("", ".*") >>],
      [exists |-> TRUE,
       lines |-> << RuleLine("", ".*"), RuleLine("=", ExactBar),
                    RuleLine("!", "bar\\(I\\)V") >>] }

(***************************************************************************)
(* MethodFilter                                                            *)
(***************************************************************************)
RECURSIVE LoadLines(_, _)
LoadLines(lines, f) ==
    IF lines = <<>> THEN f
    ELSE LET line == Head(lines)
             g == CASE line.tag = "#" -> f
                    [] line.tag = "!" ->
                         [f EXCEPT !.keep_filters = Append(@, line.body)]
                    [] line.tag = "=" ->
                         [f EXCEPT !.compile_full_match = @ \cup {line.body}]
                    [] OTHER ->
                         [f EXCEPT !.compile_filters = Append(@, line.body)]
         IN LoadLines(Tail(lines), g)

\* MethodFilter._load_filter_configure
load_filter_configure(configure) ==
    LET empty == [compile_filters |-> <<>>, keep_filters |-> <<>>,
                  compile_full_match |-> {}]
    IN IF ~configure.exists THEN empty ELSE LoadLines(configure.lines, empty)

RECURSIVE ConflictLoop(_, _, _)
\* the loop of _init_conflict_methods: all_methods is the dict built so far,
\* as the set of its (key, value) pairs
ConflictLoop(ms, all_methods, conflicts) ==
    IF ms = <<>> THEN conflicts
    ELSE LET m == Head(ms)
             method_triple == get_method_triple(m, FALSE)
             hit == {p \in all_methods : p[1] = method_triple}
         IN IF hit # {}
            THEN ConflictLoop(Tail(ms), all_methods,
                              conflicts \cup {m} \cup {p[2] : p \in hit})
            ELSE ConflictLoop(Tail(ms),
                              all_methods \cup {<<method_triple, m>>}, conflicts)

\* MethodFilter._init_conflict_methods
init_conflict_methods(vm) == ConflictLoop(get_methods(vm), {}, {})

\* MethodFilter._init_native_methods
init_native_methods(vm) ==
    {<<m.cls, m.name>> : m \in {x \in vm.methods : x.native}}

\* MethodFilter._add_annotation_method: whether the method is added
add_annotation_method(m) == ~is_synthetic_method(m) /\ ~is_native_method(m)

\* no method is annotated for extraction
init_annotation_methods_none(vm) == {}

\* MethodFilter._init_annotation_methods
init_annotation_methods(vm) ==
    {m \in vm.methods :
        /\ vm.class_annotated \/ m.annotated
        /\ add_annotation_method(m)}

\* MethodFilter.__init__
MethodFilter(configure, vm) ==
    LET f == load_filter_configure(configure)
    IN [compile_filters |-> f.compile_filters,
        keep_filters |-> f.keep_filters,
        compile_full_match |-> f.compile_full_match,
        conflict_methods |-> init_conflict_methods(vm),
        native_methods |-> init_native_methods(vm),
        annotated_methods |-> init_annotation_methods(vm)]

\* MethodFilter.should_compile
should_compile(mf, method, skip) ==
    LET method_triple == get_method_triple(method, TRUE)
        full_name == FullName(method_triple)
    IN IF method \in mf.conflict_methods THEN FALSE
       ELSE IF is_synthetic_method(method) /\ skip THEN FALSE
       ELSE IF is_native_method(method) THEN FALSE
       ELSE IF method_triple[2] = "<clinit>" THEN FALSE
       ELSE IF <<method_triple[1], method_triple[2]>> \in mf.native_methods
            THEN FALSE
       ELSE IF \E i \in DOMAIN mf.keep_filters :
                   RegexSearch(mf.keep_filters[i], full_name) THEN FALSE
       ELSE IF full_name \in mf.compile_full_match THEN TRUE
       ELSE IF method \in mf.annotated_methods THEN TRUE
       ELSE IF \E i \in DOMAIN mf.compile_filters :
                   RegexSearch(mf.compile_filters[i], full_name) THEN TRUE
       ELSE FALSE

(***************************************************************************)
(* Smali listings.  A line is its indentation and its words: pre holds the *)
(* words before the last one, and the last word is name \o proto, where    *)
(* proto is the part from the first "(" on ("" when the word has none).    *)
(***************************************************************************)
Ln(ind, pre, name, proto) ==
    [ind |-> ind, pre |-> pre, name |-> name, proto |-> proto]

\* line.strip(): the words of the line
Words(line) ==
    IF line.name \o line.proto = "" THEN line.pre
    ELSE Append(line.pre, line.name \o line.proto)

FirstWord(line) == IF Words(line) = <<>> THEN "" ELSE Words(line)[1]

\* line.split(" ")[-1]
LastWord(line) == line.name \o line.proto

\* s == ".end method"
IsEndMethod(line) == Words(line) = <<".end", "method">>

\* s == ".end annotation"
IsEndAnnotation(line) == Words(line) = <<".end", "annotation">>

\* the words of the model in which "Dex2C" is found
Dex2CWords == {"Lcom/Dex2C;"}

\* s.find("Dex2C") >= 0
FindsDex2C(line) == \E i \in DOMAIN Words(line) : Words(line)[i] \in Dex2CWords

\* s.startswith(".annotation runtime")
StartsAnnotationRuntime(line) ==
    /\ Len(Words(line)) >= 2
    /\ Words(line)[1] = ".annotation"
    /\ Words(line)[2] = "runtime"

\* line.find(" native ") >= 0: native is a word with a word on either side
FindsNative(line) ==
    \E i \in DOMAIN Words(line) :
        i > 1 /\ i < Len(Words(line)) /\ Words(line)[i] = "native"

\* code_lines[-1].replace(current_method, "native " + current_method)
ReplaceWithNative(line) == [line EXCEPT !.pre = Append(@, "native")]

\* the line native_class_methods appends: ".end method\n"
EndMethodLine == Ln(0, <<".end">>, "method", "")

\* handle_annotanion without its test for the end of the block
handle_annotanion_to_eof(lines, code_lines) ==
    [rest |-> <<>>, code_lines |-> code_lines \o lines]

RECURSIVE handle_annotanion(_, _)
\* native_class_methods.handle_annotanion: lines are the lines not yet read;
\* gives the lines left and code_lines
handle_annotanion(lines, code_lines) ==
    IF lines = <<>> THEN [rest |-> <<>>, code_lines |-> code_lines]
    ELSE IF IsEndAnnotation(Head(lines))
         THEN [rest |-> Tail(lines), code_lines |-> Append(code_lines, Head(lines))]
         ELSE handle_annotanion(Tail(lines), Append(code_lines, Head(lines)))

\* the test of handle_method_body without the visibility
KeepsAnnotation_any_visibility(line) ==
    FirstWord(line) = ".annotation" /\ ~FindsDex2C(line)

\* the branch of handle_method_body that keeps an annotation block
KeepsAnnotation(line) == StartsAnnotationRuntime(line) /\ ~FindsDex2C(line)

RECURSIVE handle_method_body(_, _)
\* native_class_methods.handle_method_body
handle_method_body(lines, code_lines) ==
    IF lines = <<>> THEN [rest |-> <<>>, code_lines |-> code_lines]
    ELSE IF IsEndMethod(Head(lines))
         THEN [rest |-> Tail(lines), code_lines |-> code_lines]
    ELSE IF KeepsAnnotation(Head(lines))
         THEN LET r == handle_annotanion(Tail(lines),
                                         Append(code_lines, Head(lines)))
              IN handle_method_body(r.rest, r.code_lines)
    ELSE handle_method_body(Tail(lines), code_lines)

\* the header line without the test for a native modifier
PatchHeader_always(line) == ReplaceWithNative(line)

\* the header line as native_class_methods leaves it
PatchHeader(line) == IF ~FindsNative(line) THEN ReplaceWithNative(line) ELSE line

RECURSIVE native_class_lines(_, _, _, _)
\* the reading loop of native_class_methods
native_class_lines(lines, class_name, code_lines, compiled) ==
    IF lines = <<>> THEN code_lines
    ELSE LET line == Head(lines)
         IN IF FirstWord(line) = ".class"
            THEN native_class_lines(Tail(lines), LastWord(line),
                                    Append(code_lines, line), compiled)
            ELSE IF FirstWord(line) = ".method"
                    /\ <<class_name, line.name, line.proto>> \in DOMAIN compiled
            THEN LET r == handle_method_body(
                              Tail(lines), Append(code_lines, PatchHeader(line)))
                 IN native_class_lines(r.rest, class_name,
                                       Append(r.code_lines, EndMethodLine),
                                       compiled)
            ELSE native_class_lines(Tail(lines), class_name,
                                    Append(code_lines, line), compiled)

\* native_class_methods: the listing written back
native_class_methods(listing, compiled) ==
    native_class_lines(listing, "", <<>>, compiled)

(***************************************************************************)
(* The listings of the model: a class of two methods, bar(I)V with a body  *)
(* of up to MaxBodyItems items and baz()V.                                 *)
(***************************************************************************)
Blank == Ln(0, <<>>, "", "")

AnnotationBlock(ind, visibility, type) ==
    << Ln(ind, <<".annotation", visibility>>, type, ""),
       Ln(ind + 4, <<"value", "=">>, "1", ""),
       Ln(ind, <<".end">>, "annotation", "") >>

BodyItems ==
    { AnnotationBlock(4, "runtime", "Lcom/Keep;"),
      AnnotationBlock(4, "runtime", "Lcom/Dex2C;"),
      AnnotationBlock(4, "system", "Ldalvik/annotation/Throws;"),
      AnnotationBlock(4, "build", "Lcom/Gen;"),
      << Ln(4, <<".locals">>, "1", "") >>,
      << Ln(4, <<".line">>, "5", "") >>,
      << Ln(4, <<>>, "return-void", "") >> }

RECURSIVE BodiesOf(_)
\* the bodies of up to n items
BodiesOf(n) ==
    IF n = 0 THEN {<<>>}
    ELSE BodiesOf(n - 1) \cup
         {b \o i : b \in BodiesOf(n - 1), i \in BodyItems}

MethodLines(mods, name, proto, body) ==
    << Ln(0, <<".method">> \o mods, name, proto) >> \o body
        \o << Ln(0, <<".end">>, "method", ""), Blank >>

ClassPrefix ==
    << Ln(0, <<".class", "public">>, "LA;", ""),
       Ln(0, <<".super">>, "Ljava/lang/Object;", ""),
       Blank >>
    \o AnnotationBlock(0, "runtime", "Lcom/Keep;")
    \o << Blank, Ln(0, <<".field", "private">>, "x:I", ""), Blank >>

BazBodies ==
    { << Ln(4, <<".locals">>, "0", ""), Ln(4, <<>>, "return-void", "") >>,
      << Ln(4, <<".registers">>, "1", "") >>
        \o AnnotationBlock(4, "runtime", "Lcom/Keep;")
        \o << Ln(4, <<>>, "return-void", "") >> }

ClassListings ==
    LET bars == {MethodLines(<<"public">>, "bar", "(I)V", b) :
                    b \in BodiesOf(MaxBodyItems)}
        bazs == {MethodLines(<<"public", "static">>, "baz", "()V", b) :
                    b \in BazBodies}
    IN {ClassPrefix \o x \o y : x \in bars, y \in bazs}
       \cup {ClassPrefix \o y \o x : x \in bars, y \in bazs}

\* the keys of compiled_methods in the model of the patcher
PatchKeys ==
    { <<"LA;", "bar", "(I)V">>, <<"LA;", "baz", "()V">>, <<"LB;", "bar", "(I)V">> }

\* the listing roots of a decompiled package, as os.listdir gives them
SmaliRoots == <<"smali", "smali_classes2">>

RECURSIVE SetToSeq(_)
\* the elements of a set in some fixed order: the iteration order of a dict
SetToSeq(S) ==
    IF S = {} THEN <<>>
    ELSE LET x == CHOOSE y \in S : TRUE IN <<x>> \o SetToSeq(S \ {x})

RECURSIVE PathsOf(_, _, _)
\* the inner loop of native_compiled_dexes for one root
PathsOf(root, keys, files) ==
    IF keys = <<>> THEN <<>>
    ELSE LET smali_path == <<root, Head(keys)[1]>>
         IN (IF smali_path \in DOMAIN files THEN <<smali_path>> ELSE <<>>)
            \o PathsOf(root, Tail(keys), files)

RECURSIVE TodoOf(_, _, _)
\* the list todo of native_compiled_dexes
TodoOf(roots, keys, files) ==
    IF roots = <<>> THEN <<>>
    ELSE PathsOf(Head(roots), keys, files) \o TodoOf(Tail(roots), keys, files)

(***************************************************************************)
(* The loader class.  A class name is the sequence of its dot-separated    *)
(* parts; the texts derived from it (with "/" or "_" for ".") are named by *)
(* the same sequence.                                                      *)
(***************************************************************************)
DefaultLoader == <<"amimo", "dcc", "DccApplication">>

Loaders == { DefaultLoader, <<"com", "Loader">>, <<"Loader">> }

\* custom_loader.rfind(".") == -1
HasNoPackage(loader) == Len(loader) = 1

RECURSIVE Join(_, _)
\* sep.join(parts)
Join(parts, sep) ==
    IF parts = <<>> THEN ""
    ELSE IF Len(parts) = 1 THEN parts[1]
    ELSE parts[1] \o sep \o Join(Tail(parts), sep)

(***************************************************************************)
(* The build template project/jni: the bootstrap source nc/Dex2C.cpp, by   *)
(* the class its FindClass call names and the class its native symbols are *)
(* derived from, and the descriptor Application.mk, by its lines.          *)
(***************************************************************************)
MkLine(key, val) == [key |-> key, val |-> val]

PristineTemplate ==
    [ dex2c |-> [find_class |-> Join(DefaultLoader, "/"),
                 symbol |-> "Java_" \o Join(DefaultLoader, "_")],
      application_mk |-> << MkLine("APP_STL", <<"c++_static">>),
                            MkLine("APP_ABI", <<"armeabi-v7a", "arm64-v8a">>),
                            MkLine("APP_PLATFORM", <<"android-21">>) >> ]

\* dcc_main, the two replace calls on the text of Dex2C.cpp
PatchBootstrapText(text, loader) ==
    [ find_class |-> IF text.find_class = Join(DefaultLoader, "/")
                     THEN Join(loader, "/") ELSE text.find_class,
      symbol |-> IF text.symbol = "Java_" \o Join(DefaultLoader, "_")
                 THEN "Java_" \o Join(loader, "_") ELSE text.symbol ]

\* project/jni left as it is
restore_jni_project_folder_noop(src_path, current) == current

\* restore_jni_project_folder: the content of project/jni afterwards
restore_jni_project_folder(src_path, current) == src_path

(***************************************************************************)
(* adjust_application_mk                                                   *)
(***************************************************************************)
supported_abis == {"armeabi-v7a", "arm64-v8a", "x86_64", "x86"}
depreacated_abis == {"armeabi"}

\* directory names under lib/ a package of the model may hold
AbiNames == {"armeabi-v7a", "x86", "armeabi", "mips"}

RECURSIVE SeqsUpTo(_, _)
\* the sequences over S of length up to n
SeqsUpTo(S, n) ==
    IF n = 0 THEN {<<>>}
    ELSE SeqsUpTo(S, n - 1) \cup
         {Append(q, x) : q \in {r \in SeqsUpTo(S, n - 1) : Len(r) = n - 1}, x \in S}

\* the names zip_file.namelist() gives under lib/, by their ABI directory
LibLists == SeqsUpTo(AbiNames, MaxLibEntries)

RECURSIVE ScanAbis(_, _)
\* the loop over zip_file.namelist(): acc is available_abis, the warnings
\* logged, and whether the exception was raised
ScanAbis(names, acc) ==
    IF names = <<>> THEN acc
    ELSE LET abi_name == Head(names)
         IN IF abi_name \in supported_abis
            THEN ScanAbis(Tail(names),
                          [acc EXCEPT !.available_abis = @ \cup {abi_name}])
            ELSE IF abi_name \in depreacated_abis
            THEN ScanAbis(Tail(names),
                          [acc EXCEPT !.available_abis = @ \cup {"armeabi-v7a"},
                                      !.warnings = @ + 1])
            ELSE [acc EXCEPT !.raised = TRUE]

\* every directory name taken as it is
ReconcileAbis_keep_all(is_apk_name, names) ==
    [available_abis |-> Range(names), warnings |-> 0, raised |-> FALSE]

\* adjust_application_mk up to the rewrite of Application.mk
ReconcileAbis(is_apk_name, names) ==
    IF is_apk_name
    THEN ScanAbis(names, [available_abis |-> {}, warnings |-> 0, raised |-> FALSE])
    ELSE [available_abis |-> {}, warnings |-> 0, raised |-> TRUE]

RECURSIVE Orders(_)
\* the orders in which a set may be iterated
Orders(S) ==
    IF S = {} THEN {<<>>}
    ELSE UNION {{<<x>> \o q : q \in Orders(S \ {x})} : x \in S}

\* every line of Application.mk replaced by the APP_ABI line
RewriteAppAbi_all(mk, joined) == [i \in DOMAIN mk |-> MkLine("APP_ABI", joined)]

RECURSIVE RewriteAppAbi(_, _)
\* the copy loop of adjust_application_mk: joined is " ".join(available_abis)
RewriteAppAbi(mk, joined) ==
    IF mk = <<>> THEN <<>>
    ELSE <<IF Head(mk).key = "APP_ABI" THEN MkLine("APP_ABI", joined) ELSE Head(mk)>>
         \o RewriteAppAbi(Tail(mk), joined)

(***************************************************************************)
(* The entry-point injection of dcc_main.                                  *)
(***************************************************************************)
\* line_to_insert
InvokeLine(loader) ==
    Ln(4, <<"invoke-static", "{},">>, "L" \o Join(loader, "/") \o ";->initDcc", "()V")

\* code_block_to_append, line by line
ClinitBlock(loader) ==
    << Blank,
       Ln(16, <<".method", "static", "final", "constructor">>, "<clinit>", "()V"),
       Ln(20, <<".registers">>, "0", ""),
       Blank,
       [InvokeLine(loader) EXCEPT !.ind = 20],
       Blank,
       Ln(20, <<>>, "return-void", ""),
       Ln(16, <<".end">>, "method", ""),
       Blank >>

\* the words of the model in which "<clinit>" is found
ClinitWords == {"<clinit>()V", "\"<clinit>\""}

\* "<clinit>" in line
MentionsClinit(line) == \E i \in DOMAIN Words(line) : Words(line)[i] \in ClinitWords

\* ".locals" in line or ".registers" in line
MentionsLocals(line) ==
    \E i \in DOMAIN Words(line) : Words(line)[i] \in {".locals", ".registers"}

\* next((i for i in ...), None) over the indices hits, counted from 1; 0 is
\* None
FirstIndex(hits) ==
    IF hits = {} THEN 0 ELSE CHOOSE i \in hits : \A j \in hits : i <= j

\* content.insert(at, line), at counted from 1
InsertAt(content, at, line) ==
    SubSeq(content, 1, at - 1) \o <<line>> \o SubSeq(content, at, Len(content))

\* dcc_main, from "index = next(" to the listing written back: the content
\* written and whether the error was logged
InjectEntryPoint(content, loader) ==
    LET index == FirstIndex({i \in DOMAIN content : MentionsClinit(content[i])})
        \* index + locals_index of the code
        locals_index ==
            FirstIndex({i \in index..Len(content) : MentionsLocals(content[i])})
    IN IF index # 0
       THEN IF locals_index # 0
            THEN [content |-> InsertAt(content, locals_index + 1, InvokeLine(loader)),
                  error |-> FALSE]
            ELSE [content |-> content, error |-> TRUE]
       ELSE [content |-> content \o ClinitBlock(loader), error |-> FALSE]

(***************************************************************************)
(* The listings of the application's entry-point class in the model.       *)
(***************************************************************************)
EntryPrefixes ==
    LET head == << Ln(0, <<".class", "public">>, "Lapp/App;", ""),
                   Ln(0, <<".super">>, "Landroid/app/Application;", ""),
                   Blank >>
    IN { head,
         head \o << Ln(0, <<".field", "static", "final",
                           "TAG:Ljava/lang/String;", "=">>, "\"<clinit>\"", ""),
                    Blank >> }

\* a direct method whose name sorts before <clinit>
EntryHelpers ==
    { <<>>,
      << Ln(0, <<".method", "static", "synthetic">>, "$init", "()V"),
         Ln(4, <<".locals">>, "1", ""),
         Ln(4, <<>>, "return-void", ""),
         Ln(0, <<".end">>, "method", ""),
         Blank >> }

ClinitHeader == Ln(0, <<".method", "static", "constructor">>, "<clinit>", "()V")

EntryInitializers ==
    { <<>>,
      << ClinitHeader,
         Ln(4, <<".locals">>, "2", ""),
         Ln(4, <<>>, "return-void", ""),
         Ln(0, <<".end">>, "method", ""),
         Blank >>,
      << ClinitHeader,
         Ln(4, <<".registers">>, "1", ""),
         Ln(4, <<>>, "return-void", ""),
         Ln(0, <<".end">>, "method", ""),
         Blank >>,
      << ClinitHeader,
         Ln(4, <<>>, "return-void", ""),
         Ln(0, <<".end">>, "method", ""),
         Blank >> }

EntryTrailers ==
    { <<>>,
      << Ln(0, <<".method", "public">>, "onCreate", "()V"),
         Ln(4, <<".locals">>, "1", ""),
         Ln(4, <<>>, "return-void", ""),
         Ln(0, <<".end">>, "method", "") >>,
      << Ln(0, <<".method", "public", "native">>, "attach", "()V"),
         Ln(0, <<".end">>, "method", "") >> }

EntryListings ==
    {p \o h \o i \o t :
        p \in EntryPrefixes, h \in EntryHelpers,
        i \in EntryInitializers, t \in EntryTrailers}

\* no file: the manifest names no application class, or no listing root
\* holds it
NoFile == << Ln(0, <<>>, "(no file)", "") >>

(***************************************************************************)
(* The state.                                                              *)
(***************************************************************************)
VARIABLES
    \* compile_dex
    filtercfg,                \* the rule file
    skip_synthetic,           \* the global skip_synthetic
    sel_pc,                   \* where compile_dex stands
    dex_left,                 \* bytecode files of tmp not yet visited
    d,                        \* the file being visited
    method_filter,            \* its MethodFilter
    todo,                     \* its methods not yet visited
    compiled_method_code,     \* dict of the file being visited
    errors,                   \* list of the file being visited
    X_compiled_method_code,   \* the dict compile_dex returns
    X_errors,                 \* the list compile_dex returns
    catalog,                  \* history (SpecCatalog): the methods of every file read
    outcome                   \* history: what became of each method visited
                              \* of the file being visited

VARIABLES
    \* native_compiled_dexes
    patch_pc,                 \* where native_compiled_dexes stands
    compiled_methods,         \* the dict of the selected methods
    smali_files,              \* the listings of the decompiled package, by
                              \* (root, class)
    patch_todo,               \* the list todo
    src_files                 \* history: the listings as decompiled

VARIABLES
    \* the inputs of a run
    apk_exists,               \* os.path.exists(apkfile)
    outapk,                   \* an output path was given
    custom_loader,            \* the loader class
    force_keep_libs,          \* the global force_keep_libs
    apk_named_apk,            \* is_apk(apkfile)
    lib_names,                \* the ABI directories of the entries under lib/
    do_compile                \* not --no-build

VARIABLES
    \* __main__ and dcc_main
    main_pc,                  \* where the run stands
    template,                 \* the content of project/jni
    snapshot,                 \* the content of the backup directory
    log,                      \* the messages logged
    stages,                   \* the stages and external tools run so far
    entry_file,               \* the listing of the application class
    entry_src,                \* history: that listing as decompiled
    loader_dir_exists,        \* the loader's package directory exists
    reconciled                \* history: available_abis of adjust_application_mk

sel_vars == <<filtercfg, skip_synthetic, sel_pc, dex_left, d,
              method_filter, todo, compiled_method_code, errors,
              X_compiled_method_code, X_errors, catalog, outcome>>

patch_vars == <<patch_pc, compiled_methods, smali_files, patch_todo, src_files>>

input_vars == <<apk_exists, outapk, custom_loader, force_keep_libs,
                apk_named_apk, lib_names, do_compile>>

run_vars == <<main_pc, template, snapshot, log, stages, entry_file,
              entry_src, loader_dir_exists, reconciled>>

vars == <<sel_vars, patch_vars, input_vars, run_vars>>

(***************************************************************************)
(* Dicts: functions from keys to values.                                   *)
(***************************************************************************)
EmptyDict == [k \in {} |-> ""]
DictSet(dct, key, value) ==
    [k \in DOMAIN dct \cup {key} |-> IF k = key THEN value ELSE dct[k]]
\* dict.update
DictUpdate(dct, other) ==
    [k \in DOMAIN dct \cup DOMAIN other |->
        IF k \in DOMAIN other THEN other[k] ELSE dct[k]]

NoDex == [methods |-> {}, class_annotated |-> FALSE]
NoFilter == MethodFilter([exists |-> FALSE, lines |-> <<>>], NoDex)

(***************************************************************************)
(* The states in which a part of the program has not started.              *)
(***************************************************************************)
\* compile_dex is about to be called, or (pc = "idle") is not yet
SelStart(pc) ==
    /\ filtercfg \in RuleFiles
    /\ skip_synthetic \in BOOLEAN
    /\ sel_pc = pc
    /\ dex_left = 0
    /\ d = NoDex
    /\ method_filter = NoFilter
    /\ todo = <<>>
    /\ compiled_method_code = EmptyDict
    /\ errors = <<>>
    /\ X_compiled_method_code = EmptyDict
    /\ X_errors = <<>>
    /\ catalog = {}
    /\ outcome = {}

SelIdle ==
    /\ filtercfg = [exists |-> FALSE, lines |-> <<>>]
    /\ skip_synthetic = FALSE
    /\ sel_pc = "idle"
    /\ dex_left = 0
    /\ d = NoDex
    /\ method_filter = NoFilter
    /\ todo = <<>>
    /\ compiled_method_code = EmptyDict
    /\ errors = <<>>
    /\ X_compiled_method_code = EmptyDict
    /\ X_errors = <<>>
    /\ catalog = {}
    /\ outcome = {}

PatchIdle ==
    /\ patch_pc = "idle"
    /\ compiled_methods = EmptyDict
    /\ smali_files = EmptyDict
    /\ patch_todo = <<>>
    /\ src_files = EmptyDict

\* a run with its inputs, at the stage pc
RunStart(pc) ==
    /\ apk_exists \in BOOLEAN
    /\ outapk \in BOOLEAN
    /\ custom_loader \in Loaders
    /\ force_keep_libs \in BOOLEAN
    /\ apk_named_apk \in BOOLEAN
    /\ lib_names \in LibLists
    /\ do_compile \in BOOLEAN
    /\ main_pc = pc
    /\ template = PristineTemplate
    /\ snapshot = PristineTemplate
    /\ log = {}
    /\ stages = {}
    /\ entry_file = NoFile
    /\ entry_src = NoFile
    /\ loader_dir_exists = FALSE
    /\ reconciled = {}

RunIdle ==
    /\ apk_exists = TRUE
    /\ outapk = TRUE
    /\ custom_loader = DefaultLoader
    /\ force_keep_libs = FALSE
    /\ apk_named_apk = TRUE
    /\ lib_names = <<>>
    /\ do_compile = TRUE
    /\ main_pc = "idle"
    /\ template = PristineTemplate
    /\ snapshot = PristineTemplate
    /\ log = {}
    /\ stages = {}
    /\ entry_file = NoFile
    /\ entry_src = NoFile
    /\ loader_dir_exists = FALSE
    /\ reconciled = {}

(***************************************************************************)
(* compile_dex                                                             *)
(***************************************************************************)
SelInit == SelStart("auto_vm") /\ PatchIdle /\ RunIdle

\* tmp = auto_vm(apkfile): a package of n bytecode files
AutoVm ==
    /\ sel_pc = "auto_vm"
    /\ \E n \in 1..MaxDex : dex_left' = n
    /\ sel_pc' = "for_dex"
    /\ X_compiled_method_code' = EmptyDict
    /\ X_errors' = <<>>
    /\ UNCHANGED <<filtercfg, skip_synthetic, d, method_filter, todo,
                   compiled_method_code, errors, catalog, outcome>>
    /\ UNCHANGED <<patch_vars, input_vars, run_vars>>

\* for i in tmp: the head of the loop body, up to "for m in d.get_methods()"
NextDexFrom(contents, record) ==
    /\ sel_pc = "for_dex"
    /\ dex_left > 0
    /\ \E dex \in contents :
         /\ d' = dex
         /\ method_filter' = MethodFilter(filtercfg, dex)
         /\ todo' = get_methods(dex)
         /\ catalog' = IF record THEN catalog \cup dex.methods ELSE catalog
    /\ dex_left' = dex_left - 1
    /\ compiled_method_code' = EmptyDict
    /\ errors' = <<>>
    /\ sel_pc' = "for_m"
    /\ outcome' = {}
    /\ UNCHANGED <<filtercfg, skip_synthetic, X_compiled_method_code,
                   X_errors>>
    /\ UNCHANGED <<patch_vars, input_vars, run_vars>>

NextDex == NextDexFrom(DexContents, FALSE)

\* the same, the methods read kept in the history variable catalog
NextDexCatalog == NextDexFrom(DexContents, TRUE)

Visit(m, out) ==
    /\ todo' = Tail(todo)
    /\ outcome' = outcome \cup {[m |-> m, out |-> out]}
    /\ UNCHANGED <<filtercfg, skip_synthetic, sel_pc, dex_left, d,
                   method_filter, catalog>>
    /\ UNCHANGED <<patch_vars, input_vars, run_vars>>

TooLong(m) ==
    LET t == get_method_triple(m, TRUE)
    IN Len(JniLongName(t[1], t[2], t[3])) > MaxSymbolLen

\* len(jni_longname) > 220: continue
MethodTooLong ==
    /\ sel_pc = "for_m" /\ todo # <<>>
    /\ TooLong(Head(todo))
    /\ Visit(Head(todo), "long")
    /\ UNCHANGED <<compiled_method_code, errors, X_compiled_method_code,
                   X_errors>>

\* method_filter.should_compile(m) is false
MethodNotSelected ==
    /\ sel_pc = "for_m" /\ todo # <<>>
    /\ ~TooLong(Head(todo))
    /\ ~should_compile(method_filter, Head(todo), skip_synthetic)
    /\ Visit(Head(todo), "filtered")
    /\ UNCHANGED <<compiled_method_code, errors, X_compiled_method_code,
                   X_errors>>

\* the translator's texts for a method: a source text, or nothing
SourceTexts(m) == {"", "code:" \o FullName(get_method_triple(m, TRUE))}

\* compiler.get_source_method(m) returns
MethodCompiled ==
    /\ sel_pc = "for_m" /\ todo # <<>>
    /\ ~TooLong(Head(todo))
    /\ should_compile(method_filter, Head(todo), skip_synthetic)
    /\ \E code \in SourceTexts(Head(todo)) :
         IF code # ""
         THEN LET c == DictSet(compiled_method_code,
                               get_method_triple(Head(todo), TRUE), code)
              IN /\ compiled_method_code' = c
                 /\ X_compiled_method_code' =
                        DictUpdate(X_compiled_method_code, c)
                 /\ Visit(Head(todo), "ok")
         ELSE /\ UNCHANGED <<compiled_method_code, X_compiled_method_code>>
              /\ Visit(Head(todo), "empty")
    /\ UNCHANGED <<errors, X_errors>>

\* the exception of the translator leaving compile_dex
MethodFailed_raises ==
    /\ sel_pc = "for_m" /\ todo # <<>>
    /\ ~TooLong(Head(todo))
    /\ should_compile(method_filter, Head(todo), skip_synthetic)
    /\ sel_pc' = "returned"
    /\ todo' = <<>>
    /\ outcome' = outcome \cup {[m |-> Head(todo), out |-> "fail"]}
    /\ UNCHANGED <<filtercfg, skip_synthetic, dex_left, d, method_filter,
                   compiled_method_code, errors, X_compiled_method_code,
                   X_errors, catalog>>
    /\ UNCHANGED <<patch_vars, input_vars, run_vars>>

\* compiler.get_source_method(m) raises
MethodFailed ==
    /\ sel_pc = "for_m" /\ todo # <<>>
    /\ ~TooLong(Head(todo))
    /\ should_compile(method_filter, Head(todo), skip_synthetic)
    /\ LET full_name == FullName(get_method_triple(Head(todo), TRUE))
           e == Append(errors, <<full_name, "error">>)
       IN /\ errors' = e
          /\ X_errors' = X_errors \o e
    /\ Visit(Head(todo), "fail")
    /\ UNCHANGED <<compiled_method_code, X_compiled_method_code>>

\* the methods of the file are exhausted
EndDex ==
    /\ sel_pc = "for_m" /\ todo = <<>>
    /\ sel_pc' = "for_dex"
    /\ UNCHANGED <<filtercfg, skip_synthetic, dex_left, d,
                   method_filter, todo, compiled_method_code, errors,
                   X_compiled_method_code, X_errors, catalog, outcome>>
    /\ UNCHANGED <<patch_vars, input_vars, run_vars>>

\* return X_compiled_method_code, X_errors: the locals are gone
SelReturn ==
    /\ sel_pc = "for_dex" /\ dex_left = 0
    /\ sel_pc' = "returned"
    /\ d' = NoDex
    /\ method_filter' = NoFilter
    /\ compiled_method_code' = EmptyDict
    /\ errors' = <<>>
    /\ outcome' = {}
    /\ UNCHANGED <<filtercfg, skip_synthetic, dex_left, todo,
                   X_compiled_method_code, X_errors, catalog>>
    /\ UNCHANGED <<patch_vars, input_vars, run_vars>>

SelNext ==
    \/ AutoVm
    \/ NextDex
    \/ MethodTooLong
    \/ MethodNotSelected
    \/ MethodCompiled
    \/ MethodFailed
    \/ EndDex
    \/ SelReturn

SpecSel == SelInit /\ [][SelNext]_vars

CatalogNext ==
    \/ AutoVm
    \/ NextDexCatalog
    \/ MethodTooLong
    \/ MethodNotSelected
    \/ MethodCompiled
    \/ MethodFailed
    \/ EndDex
    \/ SelReturn

\* compile_dex with the catalog of all files read kept as history
SpecCatalog == SelInit /\ [][CatalogNext]_vars

(***************************************************************************)
(* native_compiled_dexes                                                   *)
(***************************************************************************)
\* the dicts with the given keys
DictsOver(keys) == {[k \in ks |-> "code:" \o FullName(k)] : ks \in SUBSET keys}

\* the decompiled packages of the model: one class listing under one root
ClassTrees(listings) ==
    {[path \in {<<root, "LA;">>} |-> listing] :
        root \in Range(SmaliRoots), listing \in listings}

PatchInit ==
    /\ patch_pc = "start"
    /\ compiled_methods \in DictsOver(PatchKeys)
    /\ smali_files \in ClassTrees(ClassListings)
    /\ src_files = smali_files
    /\ patch_todo = <<>>
    /\ SelIdle
    /\ RunIdle

\* native_compiled_dexes up to its second loop
PatchStart ==
    /\ patch_pc = "start"
    /\ patch_todo' = TodoOf(SmaliRoots, SetToSeq(DOMAIN compiled_methods),
                            smali_files)
    /\ patch_pc' = "for_path"
    /\ UNCHANGED <<compiled_methods, smali_files, src_files>>
    /\ UNCHANGED <<sel_vars, input_vars, run_vars>>

\* for smali_path in todo: native_class_methods(smali_path, compiled_methods)
PatchFile ==
    /\ patch_pc = "for_path" /\ patch_todo # <<>>
    /\ smali_files' =
          [smali_files EXCEPT ![Head(patch_todo)] =
              native_class_methods(@, compiled_methods)]
    /\ patch_todo' = Tail(patch_todo)
    /\ UNCHANGED <<patch_pc, compiled_methods, src_files>>
    /\ UNCHANGED <<sel_vars, input_vars, run_vars>>

\* native_compiled_dexes returns
PatchDone ==
    /\ patch_pc = "for_path" /\ patch_todo = <<>>
    /\ patch_pc' = "done"
    /\ UNCHANGED <<compiled_methods, smali_files, patch_todo, src_files>>
    /\ UNCHANGED <<sel_vars, input_vars, run_vars>>

PatchNext ==
    \/ PatchStart
    \/ PatchFile
    \/ PatchDone

SpecPatch == PatchInit /\ [][PatchNext]_vars

(***************************************************************************)
(* __main__ and dcc_main.  main_pc names the statement the run stands at;  *)
(* stages holds the stages completed and the external tools invoked.       *)
(***************************************************************************)
\* the bytecode files of a run of the model
RunDexContents ==
    { [methods |-> {}, class_annotated |-> FALSE],
      [methods |-> {Mth("bar", "(I)", "V", FALSE, FALSE, TRUE)},
       class_annotated |-> FALSE],
      [methods |-> {Mth(LongName, "()", "V", FALSE, FALSE, FALSE),
                    Mth("bar", "(I)", "I", FALSE, FALSE, FALSE)},
       class_annotated |-> FALSE] }

\* the decompiled listings of a run of the model
RunListings ==
    { ClassPrefix
        \o MethodLines(<<"public">>, "bar", "(I)V",
                       AnnotationBlock(4, "runtime", "Lcom/Dex2C;")
                         \o << Ln(4, <<".locals">>, "1", ""),
                               Ln(4, <<>>, "return-void", "") >>)
        \o MethodLines(<<"public", "static">>, "baz", "()V",
                       << Ln(4, <<".locals">>, "0", ""),
                          Ln(4, <<>>, "return-void", "") >>) }

\* the entry-point listings of a run of the model: a well-formed static
\* initializer, and one without directive, alone and followed by a method
RunEntryListings ==
    LET head == << Ln(0, <<".class", "public">>, "Lapp/App;", ""),
                   Ln(0, <<".super">>, "Landroid/app/Application;", ""),
                   Blank >>
        well == << ClinitHeader,
                   Ln(4, <<".locals">>, "2", ""),
                   Ln(4, <<>>, "return-void", ""),
                   Ln(0, <<".end">>, "method", ""),
                   Blank >>
        malformed == << ClinitHeader,
                        Ln(4, <<>>, "return-void", ""),
                        Ln(0, <<".end">>, "method", ""),
                        Blank >>
        onCreate == << Ln(0, <<".method", "public">>, "onCreate", "()V"),
                       Ln(4, <<".locals">>, "1", ""),
                       Ln(4, <<>>, "return-void", ""),
                       Ln(0, <<".end">>, "method", "") >>
    IN { head \o well, head \o malformed, head \o malformed \o onCreate }

RunInit == RunStart("backup") /\ SelIdle /\ PatchIdle

\* an exception leaves dcc_main: the except clause of __main__ logs it
Raise ==
    /\ main_pc' = "finally"
    /\ log' = log \cup {"failed"}

\* backup_jni_folder_path = backup_jni_project_folder()
Backup ==
    /\ main_pc = "backup"
    /\ snapshot' = template
    /\ main_pc' = "dcc_main"
    /\ UNCHANGED <<template, log, stages, entry_file, entry_src,
                   loader_dir_exists, reconciled>>
    /\ UNCHANGED <<sel_vars, patch_vars, input_vars>>

\* dcc_main: one of the three checks of the arguments fails and it returns
BadInput ==
    /\ main_pc = "dcc_main"
    /\ ~apk_exists \/ ~outapk \/ HasNoPackage(custom_loader)
    /\ main_pc' = "finally"
    /\ log' = log \cup {"bad input"}
    /\ UNCHANGED <<template, snapshot, stages, entry_file, entry_src,
                   loader_dir_exists, reconciled>>
    /\ UNCHANGED <<sel_vars, patch_vars, input_vars>>

\* dcc_main: the tests of the arguments pass and Dex2C.cpp is rewritten for the loader
PatchBootstrap ==
    /\ main_pc = "dcc_main"
    /\ apk_exists /\ outapk /\ ~HasNoPackage(custom_loader)
    /\ template' = [template EXCEPT
                       !.dex2c = PatchBootstrapText(@, custom_loader)]
    /\ stages' = stages \cup {"bootstrap"}
    /\ main_pc' = IF ~force_keep_libs THEN "abi" ELSE "compile_dex"
    /\ UNCHANGED <<snapshot, log, entry_file, entry_src,
                   loader_dir_exists, reconciled>>
    /\ UNCHANGED <<sel_vars, patch_vars, input_vars>>

\* the warnings adjust_application_mk logs
AbiLog(r) == IF r.warnings > 0 THEN {"abi warning"} ELSE {}

\* adjust_application_mk(apkfile) raises
AdjustRaises ==
    /\ main_pc = "abi"
    /\ LET r == ReconcileAbis(apk_named_apk, lib_names)
       IN /\ r.raised
          /\ main_pc' = "finally"
          /\ log' = log \cup AbiLog(r) \cup {"failed"}
    /\ UNCHANGED <<template, snapshot, stages, entry_file, entry_src,
                   loader_dir_exists, reconciled>>
    /\ UNCHANGED <<sel_vars, patch_vars, input_vars>>

\* adjust_application_mk(apkfile) returns, Application.mk rewritten when an
\* ABI was found
AdjustApplicationMk ==
    /\ main_pc = "abi"
    /\ LET r == ReconcileAbis(apk_named_apk, lib_names)
       IN /\ ~r.raised
          /\ log' = log \cup AbiLog(r)
          /\ reconciled' = r.available_abis
          /\ IF r.available_abis = {}
             THEN UNCHANGED template
             ELSE \E joined \in Orders(r.available_abis) :
                    template' = [template EXCEPT
                        !.application_mk = RewriteAppAbi(@, joined)]
    /\ stages' = stages \cup {"abi"}
    /\ main_pc' = "compile_dex"
    /\ UNCHANGED <<snapshot, entry_file, entry_src, loader_dir_exists>>
    /\ UNCHANGED <<sel_vars, patch_vars, input_vars>>

\* compiled_methods, errors = compile_dex(apkfile, filtercfg): the call
CallCompileDex ==
    /\ main_pc = "compile_dex"
    /\ sel_pc = "idle"
    /\ sel_pc' = "auto_vm"
    /\ stages' = stages \cup {"compile_dex"}
    /\ main_pc' = "in_compile_dex"
    /\ UNCHANGED <<filtercfg, skip_synthetic, dex_left, d, method_filter, todo,
                   compiled_method_code, errors, X_compiled_method_code,
                   X_errors, catalog, outcome>>
    /\ UNCHANGED <<template, snapshot, log, entry_file, entry_src,
                   loader_dir_exists, reconciled>>
    /\ UNCHANGED <<patch_vars, input_vars>>

\* auto_vm raises: the file is neither a package nor a bytecode file
AutoVmRaises ==
    /\ main_pc = "in_compile_dex"
    /\ sel_pc = "auto_vm"
    /\ sel_pc' = "idle"
    /\ Raise
    /\ UNCHANGED <<filtercfg, skip_synthetic, dex_left, d, method_filter, todo,
                   compiled_method_code, errors, X_compiled_method_code,
                   X_errors, catalog, outcome>>
    /\ UNCHANGED <<template, snapshot, stages, entry_file, entry_src,
                   loader_dir_exists, reconciled>>
    /\ UNCHANGED <<patch_vars, input_vars>>

\* NextDex over the files of a run
RunNextDex == NextDexFrom(RunDexContents, FALSE)

\* the run going on to the build with no method compiled
NoMethods_goes_on ==
    /\ main_pc = "in_compile_dex"
    /\ sel_pc = "returned"
    /\ DOMAIN X_compiled_method_code = {}
    /\ main_pc' = "build"
    /\ log' = log \cup {"no methods"}
    /\ UNCHANGED <<template, snapshot, stages, entry_file, entry_src,
                   loader_dir_exists, reconciled>>
    /\ UNCHANGED <<sel_vars, patch_vars, input_vars>>

\* compile_dex has returned and no method was compiled: dcc_main returns
NoMethods ==
    /\ main_pc = "in_compile_dex"
    /\ sel_pc = "returned"
    /\ DOMAIN X_compiled_method_code = {}
    /\ main_pc' = "finally"
    /\ log' = log \cup (IF X_errors # <<>> THEN {"warning"} ELSE {})
                  \cup {"no methods"}
    /\ UNCHANGED <<template, snapshot, stages, entry_file, entry_src,
                   loader_dir_exists, reconciled>>
    /\ UNCHANGED <<sel_vars, patch_vars, input_vars>>

\* compile_dex has returned methods: write_compiled_methods into the copy of
\* the project
Emit ==
    /\ main_pc = "in_compile_dex"
    /\ sel_pc = "returned"
    /\ DOMAIN X_compiled_method_code # {}
    /\ compiled_methods' = X_compiled_method_code
    /\ log' = log \cup (IF X_errors # <<>> THEN {"warning"} ELSE {})
    /\ stages' = stages \cup {"emit"}
    /\ main_pc' = "build"
    /\ UNCHANGED <<template, snapshot, entry_file, entry_src,
                   loader_dir_exists, reconciled>>
    /\ UNCHANGED <<patch_pc, smali_files, patch_todo, src_files>>
    /\ UNCHANGED <<sel_vars, input_vars>>

\* after "if do_compile: build_project(project_dir)"
AfterBuild == IF apk_named_apk /\ outapk THEN "decompile" ELSE "finally"

\* build_project returns, or is not called
Build ==
    /\ main_pc = "build"
    /\ stages' = stages \cup (IF do_compile THEN {"build"} ELSE {})
    /\ main_pc' = AfterBuild
    /\ UNCHANGED <<template, snapshot, log, entry_file, entry_src,
                   loader_dir_exists, reconciled>>
    /\ UNCHANGED <<sel_vars, patch_vars, input_vars>>

\* build_project raises
BuildFails ==
    /\ main_pc = "build"
    /\ do_compile
    /\ stages' = stages \cup {"build"}
    /\ Raise
    /\ UNCHANGED <<template, snapshot, entry_file, entry_src,
                   loader_dir_exists, reconciled>>
    /\ UNCHANGED <<sel_vars, patch_vars, input_vars>>

\* decompiled_dir = ApkTool.decompile(apkfile) returns: the listings of the
\* package, the listing of its application class, and whether the directory
\* of the loader's package is among them
Decompile ==
    /\ main_pc = "decompile"
    /\ \E tree \in ClassTrees(RunListings) :
         /\ smali_files' = tree
         /\ src_files' = tree
    /\ \E listing \in RunEntryListings \cup {NoFile} :
         /\ entry_file' = listing
         /\ entry_src' = listing
    /\ loader_dir_exists' \in BOOLEAN
    /\ patch_pc' = "start"
    /\ stages' = stages \cup {"decompile"}
    /\ main_pc' = "patch"
    /\ UNCHANGED <<template, snapshot, log, reconciled>>
    /\ UNCHANGED <<compiled_methods, patch_todo>>
    /\ UNCHANGED <<sel_vars, input_vars>>

\* ApkTool.decompile raises
DecompileFails ==
    /\ main_pc = "decompile"
    /\ stages' = stages \cup {"decompile"}
    /\ Raise
    /\ UNCHANGED <<template, snapshot, entry_file, entry_src,
                   loader_dir_exists, reconciled>>
    /\ UNCHANGED <<sel_vars, patch_vars, input_vars>>

\* copy_compiled_libs and the preparation of the loader listing return
CopyLibs ==
    /\ main_pc = "patch"
    /\ patch_pc = "done"
    /\ stages' = stages \cup {"patch", "copy_libs"}
    /\ main_pc' = "entry_point"
    /\ UNCHANGED <<template, snapshot, log, entry_file, entry_src,
                   loader_dir_exists, reconciled>>
    /\ UNCHANGED <<sel_vars, patch_vars, input_vars>>

\* copy_compiled_libs raises (an ABI directory without compiled library), or
\* Android.mk defines no LOCAL_MODULE
CopyLibsFails ==
    /\ main_pc = "patch"
    /\ patch_pc = "done"
    /\ stages' = stages \cup {"patch"}
    /\ Raise
    /\ UNCHANGED <<template, snapshot, entry_file, entry_src,
                   loader_dir_exists, reconciled>>
    /\ UNCHANGED <<sel_vars, patch_vars, input_vars>>

\* no application class: the manifest editor is run; its failure is logged
ManifestEditor ==
    /\ main_pc = "entry_point"
    /\ entry_file = NoFile
    /\ stages' = stages \cup {"manifest_editor"}
    /\ \E failed \in BOOLEAN :
         log' = log \cup (IF failed THEN {"manifest editor error"} ELSE {})
    /\ main_pc' = "place_loader"
    /\ UNCHANGED <<template, snapshot, entry_file, entry_src,
                   loader_dir_exists, reconciled>>
    /\ UNCHANGED <<sel_vars, patch_vars, input_vars>>

\* the listing of the application class is read, changed and written back
InjectEntry ==
    /\ main_pc = "entry_point"
    /\ entry_file # NoFile
    /\ LET r == InjectEntryPoint(entry_file, custom_loader)
       IN /\ entry_file' = r.content
          /\ log' = log \cup (IF r.error THEN {"clinit error"} ELSE {})
    /\ stages' = stages \cup {"inject"}
    /\ main_pc' = "place_loader"
    /\ UNCHANGED <<template, snapshot, entry_src, loader_dir_exists, reconciled>>
    /\ UNCHANGED <<sel_vars, patch_vars, input_vars>>

\* os.makedirs(loaderDir) and the copy of the loader listing
PlaceLoader ==
    /\ main_pc = "place_loader"
    /\ ~loader_dir_exists
    /\ loader_dir_exists' = TRUE
    /\ stages' = stages \cup {"loader"}
    /\ main_pc' = "recompile"
    /\ UNCHANGED <<template, snapshot, log, entry_file, entry_src, reconciled>>
    /\ UNCHANGED <<sel_vars, patch_vars, input_vars>>

\* os.makedirs(loaderDir) raises: the directory exists
PlaceLoaderFails ==
    /\ main_pc = "place_loader"
    /\ loader_dir_exists
    /\ Raise
    /\ UNCHANGED <<template, snapshot, stages, entry_file, entry_src,
                   loader_dir_exists, reconciled>>
    /\ UNCHANGED <<sel_vars, patch_vars, input_vars>>

\* unsigned_apk = ApkTool.compile(decompiled_dir) returns
Recompile ==
    /\ main_pc = "recompile"
    /\ stages' = stages \cup {"recompile"}
    /\ main_pc' = "sign"
    /\ UNCHANGED <<template, snapshot, log, entry_file, entry_src,
                   loader_dir_exists, reconciled>>
    /\ UNCHANGED <<sel_vars, patch_vars, input_vars>>

\* ApkTool.compile raises
RecompileFails ==
    /\ main_pc = "recompile"
    /\ stages' = stages \cup {"recompile"}
    /\ Raise
    /\ UNCHANGED <<template, snapshot, entry_file, entry_src,
                   loader_dir_exists, reconciled>>
    /\ UNCHANGED <<sel_vars, patch_vars, input_vars>>

\* sign(unsigned_apk, outapk) returns, and dcc_main with it
Sign ==
    /\ main_pc = "sign"
    /\ stages' = stages \cup {"sign"}
    /\ main_pc' = "finally"
    /\ UNCHANGED <<template, snapshot, log, entry_file, entry_src,
                   loader_dir_exists, reconciled>>
    /\ UNCHANGED <<sel_vars, patch_vars, input_vars>>

\* sign raises
SignFails ==
    /\ main_pc = "sign"
    /\ stages' = stages \cup {"sign"}
    /\ Raise
    /\ UNCHANGED <<template, snapshot, entry_file, entry_src,
                   loader_dir_exists, reconciled>>
    /\ UNCHANGED <<sel_vars, patch_vars, input_vars>>

\* finally: restore_jni_project_folder(backup_jni_folder_path)
Restore ==
    /\ main_pc = "finally"
    /\ template' = restore_jni_project_folder(snapshot, template)
    /\ stages' = stages \cup {"restore"}
    /\ main_pc' = "done"
    /\ UNCHANGED <<snapshot, log, entry_file, entry_src, loader_dir_exists,
                   reconciled>>
    /\ UNCHANGED <<sel_vars, patch_vars, input_vars>>

RunNext ==
    \/ Backup
    \/ BadInput
    \/ PatchBootstrap
    \/ AdjustRaises
    \/ AdjustApplicationMk
    \/ CallCompileDex
    \/ AutoVmRaises
    \/ AutoVm
    \/ RunNextDex
    \/ MethodTooLong
    \/ MethodNotSelected
    \/ MethodCompiled
    \/ MethodFailed
    \/ EndDex
    \/ SelReturn
    \/ NoMethods
    \/ Emit
    \/ Build
    \/ BuildFails
    \/ Decompile
    \/ DecompileFails
    \/ PatchStart
    \/ PatchFile
    \/ PatchDone
    \/ CopyLibs
    \/ CopyLibsFails
    \/ ManifestEditor
    \/ InjectEntry
    \/ PlaceLoader
    \/ PlaceLoaderFails
    \/ Recompile
    \/ RecompileFails
    \/ Sign
    \/ SignFails
    \/ Restore

\* a run of the program, from the backup of the template to its restore
SpecRun == RunInit /\ [][RunNext]_vars

\* the run at the entry-point stage: the package is decompiled and patched,
\* the bootstrap source names the loader
InjectInit ==
    /\ apk_exists = TRUE
    /\ outapk = TRUE
    /\ custom_loader \in {l \in Loaders : ~HasNoPackage(l)}
    /\ force_keep_libs = TRUE
    /\ apk_named_apk = TRUE
    /\ lib_names = <<>>
    /\ do_compile = TRUE
    /\ main_pc = "entry_point"
    /\ template = [PristineTemplate EXCEPT
                      !.dex2c = PatchBootstrapText(@, custom_loader)]
    /\ snapshot = PristineTemplate
    /\ log = {}
    /\ stages = {"bootstrap", "compile_dex", "emit", "build", "decompile",
                 "patch", "copy_libs"}
    /\ entry_file \in EntryListings \cup {NoFile}
    /\ entry_src = entry_file
    /\ loader_dir_exists \in BOOLEAN
    /\ reconciled = {}
    /\ SelIdle
    /\ PatchIdle

InjectNext ==
    \/ ManifestEditor
    \/ InjectEntry
    \/ PlaceLoader
    \/ PlaceLoaderFails
    \/ Recompile
    \/ RecompileFails
    \/ Sign
    \/ SignFails
    \/ Restore

\* the run from the entry-point stage on, over the entry-point listings
SpecInject == InjectInit /\ [][InjectNext]_vars

(***************************************************************************)
(* Claims about the selection pass.                                        *)
(***************************************************************************)
Key(m) == get_method_triple(m, TRUE)
Selected == DOMAIN X_compiled_method_code

\* two methods of the catalog that share (owning type, name, parameters)
\* and differ in the return type
ReturnConflict(m, n) ==
    /\ get_method_triple(m, FALSE) = get_method_triple(n, FALSE)
    /\ m.ret # n.ret

\* C1: no method that shares (owning type, name, parameters) with another
\* method of the catalog of a different return type is a key of the
\* SelectionResult.
C1_NoConflictSelected ==
    sel_pc = "returned" =>
        \A m \in catalog, n \in catalog :
            ReturnConflict(m, n) => Key(m) \notin Selected

\* the exclusion conditions of C2, over the catalog of the whole input
KeepMatches(m) ==
    \E i \in DOMAIN load_filter_configure(filtercfg).keep_filters :
        RegexSearch(load_filter_configure(filtercfg).keep_filters[i],
                    FullName(Key(m)))

Vetoed(m) ==
    \/ m.synthetic /\ skip_synthetic
    \/ m.native
    \/ m.name = "<clinit>"
    \/ \E n \in catalog : n.native /\ n.cls = m.cls /\ n.name = m.name
    \/ KeepMatches(m)
    \/ TooLong(m)

\* C2: a method under any of the exclusion conditions (synthetic with
\* skip-synthetic, native, static initializer, same (type, name) as a native
\* method, matched by a keep rule, symbol longer than 220) is never a key of
\* the SelectionResult.
C2_ExclusionWins ==
    sel_pc = "returned" =>
        \A m \in catalog : Vetoed(m) => Key(m) \notin Selected

\* the exclusion conditions 1-6 of the rule engine for a method of the file
\* being visited
Excluded1to6(m) ==
    \/ m \in method_filter.conflict_methods
    \/ m.synthetic /\ skip_synthetic
    \/ m.native
    \/ m.name = "<clinit>"
    \/ <<m.cls, m.name>> \in method_filter.native_methods
    \/ KeepMatches(m)

\* the method carries the extraction annotation, on itself or on its class
CarriesAnnotation(m) == d.class_annotated \/ m.annotated

\* the method was handed to the translator and, when the translator
\* returned a source text, is a key of the SelectionResult
IsSelected(o) ==
    /\ o.out \in {"ok", "empty", "fail"}
    /\ o.out = "ok" => Key(o.m) \in Selected

\* C7 as stated: every annotated method that meets none of the exclusion
\* conditions 1-6 is selected, a synthetic one with skip-synthetic disabled
\* included.
C7_AnnotatedSelected ==
    \A o \in outcome :
        CarriesAnnotation(o.m) /\ ~Excluded1to6(o.m) => IsSelected(o)

\* C7 amended: every annotated method that is not synthetic, whose symbol is
\* at most 220 characters long and that meets none of the exclusion
\* conditions 1-6 is selected, whatever the rule file holds.
C7_AnnotatedNonSyntheticSelected ==
    \A o \in outcome :
        /\ CarriesAnnotation(o.m)
        /\ ~Excluded1to6(o.m)
        /\ ~o.m.synthetic
        /\ ~TooLong(o.m)
        => IsSelected(o)

\* an annotated method that no rule of the rule file includes is a key of
\* the SelectionResult
C7_Witness ==
    \E o \in outcome :
        /\ CarriesAnnotation(o.m) /\ ~Excluded1to6(o.m)
        /\ ~o.m.synthetic /\ ~TooLong(o.m)
        /\ ~filtercfg.exists
        /\ o.out = "ok" /\ Key(o.m) \in Selected

(***************************************************************************)
(* Claims about the listing patcher.  The listings are read here by their  *)
(* structure: a method runs from its ".method" line to the next            *)
(* ".end method" line.                                                     *)
(***************************************************************************)
PatchSelected == DOMAIN compiled_methods

HeaderOf(line, cls) ==
    FirstWord(line) = ".method" /\ <<cls, line.name, line.proto>> \in PatchSelected

EndsMethod(line) == line.pre = <<".end">> /\ line.name = "method"
EndsAnnotation(line) == line.pre = <<".end">> /\ line.name = "annotation"
StartsAnnotation(line) == line.pre # <<>> /\ line.pre[1] = ".annotation"

\* the class a listing declares
ClassOf(listing) ==
    LET decl == {i \in DOMAIN listing : FirstWord(listing[i]) = ".class"}
    IN IF decl = {} THEN "" ELSE LastWord(listing[CHOOSE i \in decl : TRUE])

RECURSIVE Skeleton(_, _, _)
\* the listing with every selected method, from its header through its end
\* marker, replaced by one line naming it
Skeleton(lines, cls, inside) ==
    IF lines = <<>> THEN <<>>
    ELSE LET line == Head(lines)
         IN IF inside
            THEN Skeleton(Tail(lines), cls, ~EndsMethod(line))
            ELSE IF HeaderOf(line, cls)
            THEN <<Ln(0, <<"selected">>, line.name, line.proto)>>
                    \o Skeleton(Tail(lines), cls, TRUE)
            ELSE <<line>> \o Skeleton(Tail(lines), cls, FALSE)

RECURSIVE Segments(_, _, _)
\* the selected methods of a listing, each from its header through its end
\* marker; cur is the method being read, <<>> outside of one
Segments(lines, cls, cur) ==
    IF lines = <<>> THEN (IF cur = <<>> THEN <<>> ELSE <<cur>>)
    ELSE LET line == Head(lines)
         IN IF cur # <<>>
            THEN IF EndsMethod(line)
                 THEN <<Append(cur, line)>> \o Segments(Tail(lines), cls, <<>>)
                 ELSE Segments(Tail(lines), cls, Append(cur, line))
            ELSE IF HeaderOf(line, cls)
            THEN Segments(Tail(lines), cls, <<line>>)
            ELSE Segments(Tail(lines), cls, <<>>)

SegmentsOf(listing) == Segments(listing, ClassOf(listing), <<>>)

RECURSIVE Blocks(_, _)
\* the annotation blocks among the lines of a method, each from its start
\* line through its end marker; cur is the block being read
Blocks(lines, cur) ==
    IF lines = <<>> THEN (IF cur = <<>> THEN <<>> ELSE <<cur>>)
    ELSE LET line == Head(lines)
         IN IF cur # <<>>
            THEN IF EndsAnnotation(line)
                 THEN <<Append(cur, line)>> \o Blocks(Tail(lines), <<>>)
                 ELSE Blocks(Tail(lines), Append(cur, line))
            ELSE IF StartsAnnotation(line)
            THEN Blocks(Tail(lines), <<line>>)
            ELSE Blocks(Tail(lines), <<>>)

RECURSIVE Concat(_)
Concat(seqs) == IF seqs = <<>> THEN <<>> ELSE Head(seqs) \o Concat(Tail(seqs))

RECURSIVE SelectBlocks(_, _)
\* the blocks of the sequence that are in the set, in order
SelectBlocks(seq, keep) ==
    IF seq = <<>> THEN <<>>
    ELSE (IF Head(seq) \in keep THEN <<Head(seq)>> ELSE <<>>)
         \o SelectBlocks(Tail(seq), keep)

\* C4: after the Patcher has run over a listing, the lines outside the
\* selected methods (type declaration, fields, class-level annotations,
\* unselected methods from header through end marker) are the lines of the
\* listing as decompiled, unchanged and in the same order, with every
\* selected method in its place among them.
C4_FrameUnchanged ==
    \A path \in DOMAIN smali_files :
        Skeleton(smali_files[path], ClassOf(src_files[path]), FALSE)
            = Skeleton(src_files[path], ClassOf(src_files[path]), FALSE)

\* a listing with a selected and an unselected method has been patched
C4_Witness ==
    /\ patch_pc = "done"
    /\ \E path \in DOMAIN smali_files :
         /\ smali_files[path] # src_files[path]
         /\ Len(SegmentsOf(src_files[path])) = 1

\* the shape of a selected method in the output, given the method as
\* decompiled
RewriteShape(seg, src) ==
    LET middle == SubSeq(seg, 2, Len(seg) - 1)
        natives == {i \in DOMAIN Words(seg[1]) : Words(seg[1])[i] = "native"}
    IN /\ Len(seg) >= 2
       /\ seg[1] = [src[1] EXCEPT !.pre = Append(@, "native")]
       /\ Cardinality(natives) = 1
       /\ seg[Len(seg)] = Ln(0, <<".end">>, "method", "")
       /\ Cardinality({i \in DOMAIN seg : EndsMethod(seg[i])}) = 1
       /\ middle = Concat(Blocks(middle, <<>>))
       /\ \A b \in Range(Blocks(middle, <<>>)) : b \in Range(Blocks(src, <<>>))
       /\ \A i \in DOMAIN middle :
            FirstWord(middle[i]) \notin {".locals", ".registers", ".line", "return-void"}

\* C5: after the Patcher has finished with all listings, each selected
\* method is its header with exactly one native modifier added in front of
\* the method name, then zero or more annotation blocks of the method, then
\* exactly one end-of-method marker; no directive, instruction or debug line
\* remains.
C5_RewriteShape ==
    patch_pc = "done" =>
        \A path \in DOMAIN smali_files :
            LET out == SegmentsOf(smali_files[path])
                src == SegmentsOf(src_files[path])
            IN /\ Len(out) = Len(src)
               /\ \A i \in DOMAIN out : RewriteShape(out[i], src[i])

\* a class with two selected methods has been patched
C5_Witness ==
    /\ patch_pc = "done"
    /\ \E path \in DOMAIN smali_files : Len(SegmentsOf(smali_files[path])) = 2

IsMarkerBlock(b) == b[1].name \in Dex2CWords
RuntimeNotMarker(b) == b[1].pre = <<".annotation", "runtime">> /\ ~IsMarkerBlock(b)

\* C6 as stated: in a selected method every annotation block that is not the
\* extraction marker, of any visibility, is kept with all its lines, and the
\* marker's block is removed.
C6_AnnotationsKept ==
    patch_pc = "done" =>
        \A path \in DOMAIN smali_files :
            \A i \in DOMAIN SegmentsOf(src_files[path]) :
                Blocks(SegmentsOf(smali_files[path])[i], <<>>)
                    = LET blocks == Blocks(SegmentsOf(src_files[path])[i], <<>>)
                      IN SelectBlocks(blocks,
                                      {b \in Range(blocks) : ~IsMarkerBlock(b)})

\* C6 amended: in a selected method every annotation block of runtime
\* visibility that is not the extraction marker is kept with all its lines
\* in order; the blocks of system or build visibility and the marker's block
\* are removed.
C6_RuntimeAnnotationsKept ==
    patch_pc = "done" =>
        \A path \in DOMAIN smali_files :
            \A i \in DOMAIN SegmentsOf(src_files[path]) :
                Blocks(SegmentsOf(smali_files[path])[i], <<>>)
                    = LET blocks == Blocks(SegmentsOf(src_files[path])[i], <<>>)
                      IN SelectBlocks(blocks,
                                      {b \in Range(blocks) : RuntimeNotMarker(b)})

\* a selected method with a runtime annotation and the extraction marker
\* has been patched
C6_Witness ==
    /\ patch_pc = "done"
    /\ \E path \in DOMAIN smali_files :
         \E i \in DOMAIN SegmentsOf(src_files[path]) :
            LET blocks == Blocks(SegmentsOf(src_files[path])[i], <<>>)
            IN /\ \E j \in DOMAIN blocks : IsMarkerBlock(blocks[j])
               /\ \E j \in DOMAIN blocks : RuntimeNotMarker(blocks[j])
               /\ Len(Blocks(SegmentsOf(smali_files[path])[i], <<>>)) = 1

(***************************************************************************)
(* Claims about the run.                                                   *)
(***************************************************************************)
\* C3: when a run has ended, by success, by an early return or by an
\* exception of any stage or tool, the build template has exactly the
\* content it had when the snapshot was taken before the run.
C3_TemplateRestored ==
    main_pc = "done" =>
        /\ "restore" \in stages
        /\ template = snapshot
        /\ template = PristineTemplate

\* a run that rewrote the bootstrap source and the build descriptor and was
\* left by an exception has ended
C3_Witness ==
    /\ main_pc = "done"
    /\ "failed" \in log
    /\ custom_loader # DefaultLoader
    /\ reconciled # {}
    /\ "compile_dex" \in stages

\* an ABI directory name that is neither supported nor the deprecated alias
Unsupported(names) ==
    \E i \in DOMAIN names : names[i] \notin supported_abis \cup depreacated_abis

\* the ABI set the directory names stand for, the alias replaced
Remapped(names) ==
    {IF names[i] = "armeabi" THEN "armeabi-v7a" ELSE names[i] : i \in DOMAIN names}

\* C10: without the override flag, a run whose package holds an unsupported
\* ABI directory name is aborted at the reconciliation, before any
\* translation; a reconciliation that completes has replaced the deprecated
\* alias by its modern equivalent, with a warning, and dropped no name; and
\* a run that goes on past the reconciliation without the override has a
\* reconciled ABI set within the allow-list.
C10_AbiReconciliation ==
    /\ ( /\ ~force_keep_libs
         /\ Unsupported(lib_names)
         /\ "bootstrap" \in stages
         /\ main_pc # "abi" )
       => /\ "failed" \in log
          /\ "abi" \notin stages
          /\ "compile_dex" \notin stages
    /\ "abi" \in stages
       => /\ reconciled = Remapped(lib_names)
          /\ "armeabi" \in Range(lib_names)
             => "armeabi-v7a" \in reconciled /\ "abi warning" \in log
    /\ "compile_dex" \in stages /\ ~force_keep_libs
       => "abi" \in stages /\ reconciled \subseteq supported_abis

\* a run without the override whose package holds the deprecated alias has
\* gone on past the reconciliation
C10_Witness ==
    /\ ~force_keep_libs
    /\ "armeabi" \in Range(lib_names)
    /\ "compile_dex" \in stages
    /\ "abi warning" \in log

(***************************************************************************)
(* Claims about the entry-point injection.  The listing is read here by    *)
(* its structure: the static initializer runs from the ".method" line of   *)
(* <clinit> to the next ".end method" line.                                *)
(***************************************************************************)
\* the header lines of the static initializer
InitializerHeaders(listing) ==
    {i \in DOMAIN listing :
        FirstWord(listing[i]) = ".method" /\ listing[i].name = "<clinit>"}

HasInitializer(listing) == InitializerHeaders(listing) # {}

\* the locals/registers directives between the initializer's header and its
\* own end marker
DirectivesOf(listing) ==
    LET start == CHOOSE i \in InitializerHeaders(listing) : TRUE
        ends == {j \in start..Len(listing) : EndsMethod(listing[j])}
        end == IF ends = {} THEN Len(listing)
               ELSE CHOOSE j \in ends : \A k \in ends : j <= k
    IN {k \in start..end : FirstWord(listing[k]) \in {".locals", ".registers"}}

\* the lines that call the loader's init entry
LoaderCalls(listing) ==
    {i \in DOMAIN listing :
        /\ FirstWord(listing[i]) = "invoke-static"
        /\ listing[i].name = InvokeLine(custom_loader).name}

\* C8: when the entry-point listing has a static initializer without
\* locals/registers directive, the run is aborted with an error at the
\* injection: no loader call is in the listing, and the recompiler and the
\* signer are not invoked.
C8_MalformedAborts ==
    ( /\ "inject" \in stages
      /\ HasInitializer(entry_src)
      /\ DirectivesOf(entry_src) = {} )
    => /\ "failed" \in log
       /\ LoaderCalls(entry_file) = {}
       /\ "recompile" \notin stages
       /\ "sign" \notin stages

\* C9: when the static initializer of the entry-point listing holds a
\* locals/registers directive, the listing after the injection is the
\* listing before with one invoke-static call to the loader's init entry
\* inserted immediately after that directive, all other lines unchanged.
C9_InjectionExact ==
    ( /\ "inject" \in stages
      /\ HasInitializer(entry_src)
      /\ DirectivesOf(entry_src) # {} )
    => LET directive == CHOOSE k \in DirectivesOf(entry_src) :
                            \A j \in DirectivesOf(entry_src) : k <= j
       IN entry_file = InsertAt(entry_src, directive + 1, InvokeLine(custom_loader))

(***************************************************************************)
(* Claims about the build descriptor and the empty selection.              *)
(***************************************************************************)
\* the lines of Application.mk now and when the snapshot was taken
DescriptorNow == template.application_mk
DescriptorBefore == snapshot.application_mk

\* C11: once the reconciliation has completed and until the template is
\* restored: when at least one ABI was found, the APP_ABI line of the build
\* descriptor lists exactly the reconciled set, each ABI once, and every
\* other line is as it was; when the package holds only the deprecated ABI
\* the line lists exactly armeabi-v7a; when no ABI was found the
\* descriptor is as it was.
C11_DescriptorRewrite ==
    ("abi" \in stages /\ main_pc # "done") =>
        /\ Len(DescriptorNow) = Len(DescriptorBefore)
        /\ \A i \in DOMAIN DescriptorBefore :
              IF DescriptorBefore[i].key = "APP_ABI" /\ reconciled # {}
              THEN /\ DescriptorNow[i].key = "APP_ABI"
                   /\ Range(DescriptorNow[i].val) = reconciled
                   /\ Len(DescriptorNow[i].val) = Cardinality(reconciled)
                   /\ Range(lib_names) = {"armeabi"}
                        => DescriptorNow[i].val = <<"armeabi-v7a">>
              ELSE DescriptorNow[i] = DescriptorBefore[i]
        /\ reconciled = {} <=> Range(lib_names) = {}

\* the descriptor of a package with the deprecated ABI and another one has
\* been rewritten
C11_Witness ==
    /\ "abi" \in stages /\ main_pc # "done"
    /\ "armeabi" \in Range(lib_names)
    /\ Cardinality(reconciled) = 2
    /\ DescriptorNow # DescriptorBefore

\* the stages after the selection pass
LaterStages ==
    {"emit", "build", "decompile", "patch", "copy_libs", "manifest_editor",
     "inject", "loader", "recompile", "sign"}

\* compile_dex has returned to dcc_main with no method
EmptySelection ==
    /\ sel_pc = "returned"
    /\ DOMAIN X_compiled_method_code = {}
    /\ main_pc # "in_compile_dex"

\* C12: when the selection pass has returned zero methods, the run has
\* logged it and left dcc_main, none of the later stages (emission, build,
\* decompile, patch, injection, loader, recompile, signing) has happened,
\* nothing of the package was decompiled or changed, and at the end of the
\* run the template is restored.
C12_EmptySelectionHalts ==
    EmptySelection =>
        /\ "no methods" \in log
        /\ "failed" \notin log
        /\ main_pc \in {"finally", "done"}
        /\ stages \cap LaterStages = {}
        /\ patch_pc = "idle" /\ smali_files = EmptyDict /\ entry_file = NoFile
        /\ main_pc = "done" => "restore" \in stages /\ template = PristineTemplate

\* a run whose selection was empty, with a translator failure, has ended
\* after the template was rewritten
C12_Witness ==
    /\ EmptySelection
    /\ main_pc = "done"
    /\ X_errors # <<>>
    /\ reconciled # {}
    /\ custom_loader # DefaultLoader

(***************************************************************************)
(* Claims about the failures of the translator.                            *)
(***************************************************************************)
\* the entry of the failure list for a method
ErrorEntry(m) == <<FullName(Key(m)), "error">>

C16_OneEntryPerFailure ==
    [][IF MethodFailed
       THEN Len(X_errors') = Len(X_errors) + 1
       ELSE X_errors' = X_errors]_vars

(***************************************************************************)
(* Claims about the loader placement and the repetition of the fix-ups.    *)
(***************************************************************************)
\* the run has been at the placement of the loader listing and has left it
PastPlacement ==
    /\ stages \cap {"inject", "manifest_editor"} # {}
    /\ main_pc # "place_loader"

\* C14: whatever the state of the loader's package directory in the
\* listing tree, the placement writes the loader listing and does not fail
\* the run.
C14_PlacementSucceeds ==
    PastPlacement => "loader" \in stages /\ loader_dir_exists

\* C15: each of the four fix-ups, applied once more to the artifacts it has
\* left, leaves them as they are and does not fail: the substitution in the
\* bootstrap source, the reconciliation of the ABIs, the entry-point
\* injection and the placement of the loader listing.
C15_FixupsIdempotent ==
    /\ ("bootstrap" \in stages /\ main_pc # "done") =>
            PatchBootstrapText(template.dex2c, custom_loader) = template.dex2c
    /\ ("abi" \in stages /\ main_pc # "done") =>
            /\ ~ReconcileAbis(apk_named_apk, lib_names).raised
            /\ ReconcileAbis(apk_named_apk, lib_names).available_abis = reconciled
            /\ reconciled # {} =>
                  \E joined \in Orders(reconciled) :
                      RewriteAppAbi(template.application_mk, joined)
                          = template.application_mk
    /\ "inject" \in stages =>
            /\ ~InjectEntryPoint(entry_file, custom_loader).error
            /\ InjectEntryPoint(entry_file, custom_loader).content = entry_file
    /\ "loader" \in stages => ~loader_dir_exists
=============================================================================
